---------------------------- MODULE Spec2Model ----------------------------
(***************************************************************************)
(* libopus.js: the Encoder and Decoder handles (lib/encoder.js,            *)
(* lib/decoder.js), the scratch arena (lib/utils.js) and the stream        *)
(* adapters, over the foreign heap of the compiled codec engine.           *)
(*                                                                         *)
(* Every public method is one action: JavaScript runs a method to its end  *)
(* before anything else runs.  The foreign calls a method makes (malloc,   *)
(* free, the engine's functions) are logged in `last.trace`, in order.     *)
(***************************************************************************)
EXTENDS Integers, Sequences, FiniteSets, TLC

VARIABLES
  handles,   \* the Encoder / Decoder objects: their fields
  heap,      \* the foreign heap: which blocks are allocated, and the codec state in them
  arena,     \* what the two scratch buffers (p_pcm, p_data) hold
  streams,   \* the stream adapters and the Transform machinery around them
  last,      \* the last method call: its input, its outcome, its foreign calls
  corrupt    \* foreign memory was written, used or freed out of bounds: what the
             \* program does from here on is undefined, and the model does not follow it

vars == <<handles, heap, arena, streams, last, corrupt>>

-----------------------------------------------------------------------------
(* Bounds of the model *)

\* the contents a codec state is told apart by, besides its fields: the count
\* of the frames it has processed is kept modulo this
StateVersions == 2
\* chunks written to one stream and not yet transformed
MaxQueue == 2
\* chunks one stream takes in all
MaxChunks == 3

HandleIds == {"h1", "h2"}
StreamIds == {"s1"}

-----------------------------------------------------------------------------
(* JavaScript values, as far as the code looks at them.                    *)
(* A number is v + f/2 (f = 1: a fraction strictly between two integers),  *)
(* NaN, or a numeric string (t = "str", the number it converts to in v).   *)

Num(n)    == [t |-> "num", v |-> n, f |-> 0]
Frac(n)   == [t |-> "num", v |-> n, f |-> 1]
NaN       == [t |-> "nan", v |-> 0, f |-> 0]
Str(n)    == [t |-> "str", v |-> n, f |-> 0]

\* twice the number a value converts to (ToNumber), which is an integer here
Twice(x)  == 2 * x.v + x.f

\* x < n and x > n of JavaScript: the operand is converted to a number, and
\* every comparison with NaN is false
JsLess(x, n)    == x.t # "nan" /\ Twice(x) < 2 * n
JsGreater(x, n) == x.t # "nan" /\ Twice(x) > 2 * n

\* x === n (and what Array.prototype.indexOf compares with): no conversion
StrictEq(x, n)  == x.t = "num" /\ x.f = 0 /\ x.v = n

\* x|0, the conversion of an argument at the engine's boundary (x >= 0 here)
ToInt32(x) == IF x.t = "nan" THEN 0 ELSE x.v

\* a / b for a non-negative integer a and a channel value b, then |0
DivToInt32(a, b) == (2 * a) \div Twice(b)

-----------------------------------------------------------------------------
(* lib/utils.js: the scratch arena *)

pcm_len  == 4 * 2 * 120 * 48
data_len == 120 * 512

p_pcm  == 1
p_data == 2
p_pcm_len  == pcm_len
p_data_len == data_len

\* the foreign addresses: the two arena buffers, one block per unsafe handle,
\* and the three temporaries of one call (the state copy, p_res, pp_res)
Addr == 1 .. (Cardinality(HandleIds) + 5)
NULL == 0

\* opus_defines.h, as the engine returns them
OPUS_OK               == 0
OPUS_BAD_ARG          == 0 - 1
OPUS_BUFFER_TOO_SMALL == 0 - 2
OPUS_INVALID_PACKET   == 0 - 4
OPUS_UNIMPLEMENTED    == 0 - 5

\* lib/encoder.js
VOIP                == 2048
AUDIO               == 2049
RESTRICTED_LOWDELAY == 2051

Rates == {8000, 12000, 16000, 24000, 48000}
Applications == {VOIP, AUDIO, RESTRICTED_LOWDELAY}

\* the request OPUS_GET_LAST_PACKET_DURATION
GET_LAST_PACKET_DURATION_REQUEST == 4039


-----------------------------------------------------------------------------
(* Values passed in and out of the methods.                                *)
(*   t = "null"   null / undefined                                         *)
(*   t = "num"    a number, n                                              *)
(*   t = "buf"    a Buffer of len bytes at byte offset off of its backing  *)
(*                ArrayBuffer; units > 0: the bytes are an Opus packet of  *)
(*                units x 2.5 ms (units = 0: they are no packet)           *)
(*   t = "i16", "f32"  an Int16Array / Float32Array of len elements        *)
(*   t = "other"  anything else that is truthy ('asd', {}, [1,2,3])        *)

JV(t, n, len, units, off) == [t |-> t, n |-> n, len |-> len, units |-> units, off |-> off]
Null        == JV("null", 0, 0, 0, 0)
Number(n)   == JV("num", n, 0, 0, 0)
Buffer(len, units, off) == JV("buf", 0, len, units, off)
Int16Array(len)   == JV("i16", 0, len, 0, 0)
Float32Array(len) == JV("f32", 0, len, 0, 0)
Other       == JV("other", 0, 0, 0, 0)

\* !x of JavaScript: null, undefined and 0 are falsy, every object is truthy
Falsy(x) == x.t = "null" \/ (x.t = "num" /\ x.n = 0)

BYTES_PER_ELEMENT(t) == IF t = "f32" THEN 4 ELSE 2

-----------------------------------------------------------------------------
(* The foreign heap.  A block holds a codec state, or bytes the model does *)
(* not look at.  The state of a codec, as far as the binding can see it:   *)
(* what it was initialised with, how many frames it has processed (n,      *)
(* modulo StateVersions: the bytes change with every frame) and the        *)
(* duration of the last packet (dur, in samples per channel).              *)

CodecState(kind, Fs, ch, app, n, dur) ==
  [kind |-> kind, Fs |-> Fs, ch |-> ch, app |-> app, n |-> n, dur |-> dur]
NoState == CodecState("raw", 0, 0, 0, 0, 0)

Block(used, state) == [used |-> used, state |-> state]
FreeBlock == Block(FALSE, NoState)

\* a foreign call, as logged
Call(fn, args, ret) == [fn |-> fn, args |-> args, ret |-> ret]

\* _malloc: the address of a block not in use (the lowest one)
malloc(hp) == CHOOSE a \in Addr : ~hp[a].used /\ \A b \in Addr : b < a => hp[b].used

\* the engine's functions are those of libopus 1.1.2; sizes are in units the
\* model chooses, since the binding only passes them on
opus_decoder_get_size(ch) == IF ch \in {1, 2} THEN 10 * ch ELSE 0
opus_encoder_get_size(ch) == IF ch \in {1, 2} THEN 20 * ch ELSE 0

opus_decoder_init(Fs, ch) ==
  IF Fs \in Rates /\ ch \in {1, 2}
  THEN [ret |-> OPUS_OK, state |-> CodecState("dec", Fs, ch, 0, 0, 0)]
  ELSE [ret |-> OPUS_BAD_ARG, state |-> NoState]

opus_encoder_init(Fs, ch, app) ==
  IF Fs \in Rates /\ ch \in {1, 2} /\ app \in Applications
  THEN [ret |-> OPUS_OK, state |-> CodecState("enc", Fs, ch, app, 0, 0)]
  ELSE [ret |-> OPUS_BAD_ARG, state |-> NoState]

\* the frame durations the encoder takes, in units of 2.5 ms
FrameUnits == {1, 2, 4, 8, 16, 24}
\* the longest packet the decoder takes: 120 ms
MaxPacketUnits == (120 * 10) \div 25

\* the bytes of a packet of `units`: the model's choice, within data_len
PacketBytes(units) == 20 * units

\* opus_encode / opus_encode_float(st, pcm, frame_size, data, max_data_bytes):
\* the packet's length and the state after, or a negative error
opus_encode(st, frame_size, max_data_bytes) ==
  LET per == st.Fs \div 400
      units == frame_size \div per
  IN  IF frame_size > 0 /\ frame_size % per = 0 /\ units \in FrameUnits
         /\ PacketBytes(units) <= max_data_bytes
      THEN [ret |-> PacketBytes(units), units |-> units,
            state |-> [st EXCEPT !.n = (st.n + 1) % StateVersions]]
      ELSE [ret |-> OPUS_BAD_ARG, units |-> 0, state |-> st]

\* opus_decode / opus_decode_float(st, data, len, pcm, frame_size, 0): the
\* samples per channel it wrote and the state after, or a negative error.
\* `units` is what the len bytes at data parse to (0: no packet).
opus_decode(st, data, len, units, frame_size) ==
  LET per == st.Fs \div 400
      lost == len = 0 \/ data = NULL
      samples == units * per
      fail(code) == [ret |-> code, state |-> st]
      done(k) == [ret |-> k, state |-> [st EXCEPT !.n = (st.n + 1) % StateVersions, !.dur = k]]
  IN  IF frame_size <= 0 THEN fail(OPUS_BAD_ARG)
      ELSE IF lost /\ frame_size % per # 0 THEN fail(OPUS_BAD_ARG)
      ELSE IF lost THEN done(frame_size)
      ELSE IF units = 0 \/ units > MaxPacketUnits THEN fail(OPUS_INVALID_PACKET)
      ELSE IF samples > frame_size THEN fail(OPUS_BUFFER_TOO_SMALL)
      ELSE done(samples)

\* opus_decoder_ctl(st, OPUS_GET_LAST_PACKET_DURATION_REQUEST, &value)
opus_decoder_ctl(st, request) ==
  IF st.kind = "dec" /\ request = GET_LAST_PACKET_DURATION_REQUEST
  THEN [ret |-> OPUS_OK, value |-> st.dur]
  ELSE [ret |-> OPUS_UNIMPLEMENTED, value |-> 0]


-----------------------------------------------------------------------------
(* The handles *)

StateField(tag, snap, ptr, freed) == [tag |-> tag, snap |-> snap, ptr |-> ptr, freed |-> freed]
\* this._state of a safe handle: the copy of the state's bytes
Snapshot(st) == StateField("snap", st, NULL, FALSE)
\* this._state of an unsafe handle: the address of the state block
Pointer(p)   == StateField("ptr", NoState, p, FALSE)

Handle(kind, rate, channels, application, unsafe, state) ==
  [kind |-> kind, rate |-> rate, channels |-> channels,
   application |-> application, unsafe |-> unsafe, state |-> state]
NoHandle == Handle("none", Num(0), Num(0), Num(0), FALSE, StateField("nil", NoState, NULL, FALSE))

Options(rate, channels, application, unsafe) ==
  [rate |-> rate, channels |-> channels, application |-> application, unsafe |-> unsafe]

\* what a method call comes to: the error it throws ("" for none) or the
\* value it returns, the object, heap and arena after it, its foreign calls,
\* and whether it wrote or freed outside what it owns
Outcome(thrown, val, obj, hp, ar, trace, bad) ==
  [thrown |-> thrown, val |-> val, obj |-> obj, heap |-> hp, arena |-> ar,
   trace |-> trace, corrupt |-> bad]

\* opts.channels < 1 || opts.channels > 2
ChannelsRejected(opts) == JsLess(opts.channels, 1) \/ JsGreater(opts.channels, 2)
\* A variant: opts.rate < 8000 || opts.rate > 48000
RateRejected_Range(opts) == JsLess(opts.rate, 8000) \/ JsGreater(opts.rate, 48000)

\* [8000, 12000, 16000, 24000, 48000].indexOf(opts.rate) == -1
RateRejected(opts) == ~ \E r \in Rates : StrictEq(opts.rate, r)
\* opts.application !== VOIP && !== AUDIO && !== RESTRICTED_LOWDELAY
ApplicationRejected(opts) == ~ \E a \in Applications : StrictEq(opts.application, a)

\* function Decoder(opts)
Decoder(opts, hp, ar) ==
  LET ch   == ToInt32(opts.channels)
      Fs   == ToInt32(opts.rate)
      size == opus_decoder_get_size(ch)
      dec  == malloc(hp)
      init == opus_decoder_init(Fs, ch)
      obj(state) == Handle("Decoder", opts.rate, opts.channels, Num(0), opts.unsafe, state)
      calls == << Call("opus_decoder_get_size", <<ch>>, size),
                  Call("malloc", <<size>>, dec),
                  Call("opus_decoder_init", <<dec, Fs, ch>>, init.ret) >>
  IN  IF ChannelsRejected(opts) THEN Outcome("channels", Null, NoHandle, hp, ar, <<>>, FALSE)
      ELSE IF RateRejected(opts) THEN Outcome("rate", Null, NoHandle, hp, ar, <<>>, FALSE)
      ELSE IF init.ret # OPUS_OK
        THEN Outcome("engine", Null, NoHandle, hp, ar,
                     Append(calls, Call("free", <<dec>>, 0)), FALSE)
      ELSE IF opts.unsafe
        THEN Outcome("", Null, obj(Pointer(dec)),
                     [hp EXCEPT ![dec] = Block(TRUE, init.state)], ar, calls, FALSE)
      ELSE Outcome("", Null, obj(Snapshot(init.state)), hp, ar,
                   Append(calls, Call("free", <<dec>>, 0)), FALSE)

\* function Encoder(opts)
Encoder(opts, hp, ar) ==
  LET ch   == ToInt32(opts.channels)
      Fs   == ToInt32(opts.rate)
      app  == ToInt32(opts.application)
      size == opus_encoder_get_size(ch)
      enc  == malloc(hp)
      init == opus_encoder_init(Fs, ch, app)
      obj(state) == Handle("Encoder", opts.rate, opts.channels, opts.application,
                           opts.unsafe, state)
      calls == << Call("opus_encoder_get_size", <<ch>>, size),
                  Call("malloc", <<size>>, enc),
                  Call("opus_encoder_init", <<enc, Fs, ch, app>>, init.ret) >>
  IN  IF ChannelsRejected(opts) THEN Outcome("channels", Null, NoHandle, hp, ar, <<>>, FALSE)
      ELSE IF RateRejected(opts) THEN Outcome("rate", Null, NoHandle, hp, ar, <<>>, FALSE)
      ELSE IF ApplicationRejected(opts)
        THEN Outcome("application", Null, NoHandle, hp, ar, <<>>, FALSE)
      ELSE IF init.ret # OPUS_OK
        THEN Outcome("engine", Null, NoHandle, hp, ar,
                     Append(calls, Call("free", <<enc>>, 0)), FALSE)
      ELSE IF opts.unsafe
        THEN Outcome("", Null, obj(Pointer(enc)),
                     [hp EXCEPT ![enc] = Block(TRUE, init.state)], ar, calls, FALSE)
      ELSE Outcome("", Null, obj(Snapshot(init.state)), hp, ar,
                   Append(calls, Call("free", <<enc>>, 0)), FALSE)

\* this._state.length of a safe handle: the size the engine gave at construction
StateLength(st) ==
  IF st.kind = "enc" THEN opus_encoder_get_size(st.ch) ELSE opus_decoder_get_size(st.ch)

\* _withState, entry: the address p that func is called with, the state
\* pointer of an unsafe handle and a fresh block for a safe one
withState_p(obj, hp) ==
  IF obj.unsafe THEN obj.state.ptr ELSE malloc(hp)

\* _withState, entry: the heap func sees; a safe handle's snapshot has been
\* copied into the block at p
withState_heap(obj, hp) ==
  IF obj.unsafe THEN hp
  ELSE [hp EXCEPT ![withState_p(obj, hp)] = Block(TRUE, obj.state.snap)]

\* A variant: no finally clause; when func throws, the state is neither
\* copied back nor freed
withState_NoFinally(obj, hp, ar, r) ==
  IF obj.unsafe
  THEN IF obj.state.freed
       THEN Outcome("", Null, obj, hp, ar, <<>>, TRUE)
       ELSE [r EXCEPT !.obj = obj]
  ELSE LET p == withState_p(obj, hp)
           m == <<Call("malloc", <<StateLength(obj.state.snap)>>, p)>>
       IN  IF r.thrown # ""
           THEN [r EXCEPT !.obj = obj, !.trace = m \o r.trace]
           ELSE [r EXCEPT
                   !.obj   = [obj EXCEPT !.state = Snapshot(r.heap[p].state)],
                   !.heap  = [r.heap EXCEPT ![p] = FreeBlock],
                   !.trace = m \o r.trace \o <<Call("free", <<p>>, 0)>>]

\* A variant: the state is not copied back from the block
withState_NoSave(obj, hp, ar, r) ==
  IF obj.unsafe
  THEN IF obj.state.freed
       THEN Outcome("", Null, obj, hp, ar, <<>>, TRUE)
       ELSE [r EXCEPT !.obj = obj]
  ELSE LET p == withState_p(obj, hp)
       IN  [r EXCEPT
              !.obj   = obj,
              !.heap  = [r.heap EXCEPT ![p] = FreeBlock],
              !.trace = <<Call("malloc", <<StateLength(obj.state.snap)>>, p)>>
                          \o r.trace \o <<Call("free", <<p>>, 0)>>]

\* Encoder.prototype._withState / Decoder.prototype._withState.
\* r is the outcome of func(p) on withState_p and withState_heap.  The
\* finally clause runs whether func returns or throws.
withState(obj, hp, ar, r) ==
  IF obj.unsafe
  THEN IF obj.state.freed
       THEN \* a destroyed handle still calls func, on the block it has freed
            Outcome("", Null, obj, hp, ar, <<>>, TRUE)
       ELSE [r EXCEPT !.obj = obj]
  ELSE LET p == withState_p(obj, hp)
       IN  [r EXCEPT
              !.obj   = [obj EXCEPT !.state = Snapshot(r.heap[p].state)],
              !.heap  = [r.heap EXCEPT ![p] = FreeBlock],
              !.trace = <<Call("malloc", <<StateLength(obj.state.snap)>>, p)>>
                          \o r.trace \o <<Call("free", <<p>>, 0)>>]

\* A variant: the state is freed whatever the mode
destroy_Always(obj, hp, ar) ==
  Outcome("", Null, [obj EXCEPT !.state.freed = TRUE], hp, ar,
          <<Call("free", <<obj.state.ptr>>, 0)>>, obj.state.freed)

\* Encoder.prototype.destroy / Decoder.prototype.destroy
destroy(obj, hp, ar) ==
  IF obj.unsafe
  THEN Outcome("", Null, [obj EXCEPT !.state.freed = TRUE],
               [hp EXCEPT ![obj.state.ptr] = FreeBlock], ar,
               <<Call("free", <<obj.state.ptr>>, 0)>>,
               \* a second free of the same block
               obj.state.freed)
  ELSE Outcome("", Null, obj, hp, ar, <<>>, FALSE)


-----------------------------------------------------------------------------
(* The arena.  Every method fills a buffer before it reads it, so between  *)
(* calls only who wrote each buffer last is kept ("" at start, "js" the    *)
(* binding, "engine" the codec); the writes themselves are logged with the *)
(* foreign calls, with the bytes written.                                  *)

Arena(pcm, data) == [pcm |-> pcm, data |-> data]

\* Decoder.prototype._getLastPacketDuration(p_dec)
getLastPacketDurationAt(p_dec, hp, ar) ==
  LET p_res  == malloc(hp)
      hp1    == [hp EXCEPT ![p_res] = Block(TRUE, NoState)]
      pp_res == malloc(hp1)
      ctl    == opus_decoder_ctl(hp[p_dec].state, GET_LAST_PACKET_DURATION_REQUEST)
      calls  == << Call("malloc", <<4>>, p_res),
                   Call("malloc", <<4>>, pp_res),
                   Call("opus_decoder_ctl",
                        <<p_dec, GET_LAST_PACKET_DURATION_REQUEST, pp_res>>, ctl.ret),
                   Call("free", <<pp_res>>, 0),
                   Call("free", <<p_res>>, 0) >>
  IN  IF ctl.ret # OPUS_OK
      THEN Outcome("engine", Null, NoHandle, hp, ar, calls, FALSE)
      ELSE Outcome("", Number(ctl.value), NoHandle, hp, ar, calls, FALSE)

\* utils.p_pcm_len / self._channels / bps, as the engine receives it
maxFrameSize(obj, bps) == (2 * p_pcm_len) \div (Twice(obj.channels) * bps)

\* A variant: the slice ends at p_pcm + ret
DecodedBytes_NoWidth(obj, ret, bps) == ret

\* the bytes of the ArrayBuffer _decode returns
DecodedBytes(obj, ret, bps) == ret * bps

\* the limit a count of lost samples is held to
LostDataLimit == p_data_len

\* the function Decoder.prototype._decode passes to _withState
decodeAt(obj, data0, bps, p_dec, hp, ar) ==
  LET est   == getLastPacketDurationAt(p_dec, hp, ar)
      data  == IF Falsy(data0) THEN est.val ELSE data0
      pre   == IF Falsy(data0) THEN est.trace ELSE <<>>
      st    == hp[p_dec].state
      fn    == IF bps = 2 THEN "opus_decode" ELSE "opus_decode_float"
      finish(dec, frame_size, calls, ar1) ==
        LET written == dec.ret * st.ch * bps
            hp2 == [hp EXCEPT ![p_dec].state = dec.state]
            ar2 == IF dec.ret > 0 THEN [ar1 EXCEPT !.pcm = "engine"] ELSE ar1
            bytes == DecodedBytes(obj, dec.ret, bps)
        IN  IF dec.ret < 0
            THEN Outcome("engine", Null, NoHandle, hp2, ar2, calls, FALSE)
            ELSE Outcome("", JV(IF bps = 2 THEN "i16" ELSE "f32", 0, bytes \div bps, 0, 0),
                         NoHandle, hp2, ar2, calls, written > p_pcm_len)
  IN  IF Falsy(data0) /\ est.thrown # "" THEN est
      ELSE IF data.t = "num" THEN
        IF data.n * bps > LostDataLimit
        THEN Outcome("too much lost data", Null, NoHandle, hp, ar, pre, FALSE)
        ELSE LET dec == opus_decode(st, NULL, 0, 0, data.n)
             IN  finish(dec, data.n,
                        Append(pre, Call(fn, <<p_dec, NULL, 0, p_pcm, data.n, 0>>, dec.ret)),
                        ar)
      ELSE IF data.t = "buf" THEN
        IF data.len > p_data_len
        THEN Outcome("data array too large", Null, NoHandle, hp, ar, pre, FALSE)
        ELSE LET ar1 == [ar EXCEPT !.data = "js"]
                 cap == maxFrameSize(obj, bps)
                 dec == opus_decode(st, p_data, data.len, data.units, cap)
             IN  finish(dec, cap,
                        pre \o << Call("HEAPU8.set", <<p_data, data.len>>, 0),
                                  Call(fn, <<p_dec, p_data, data.len, p_pcm, cap, 0>>, dec.ret) >>,
                        ar1)
      ELSE Outcome("TypeError", Null, NoHandle, hp, ar, pre, FALSE)

\* Decoder.prototype._decode, under decodeInt16 (bps = 2) and decodeFloat32 (bps = 4)
decode(obj, data, bps, hp, ar) ==
  LET func(p, hp1, ar1) == decodeAt(obj, data, bps, p, hp1, ar1)
  IN  withState(obj, hp, ar,
                func(withState_p(obj, hp), withState_heap(obj, hp), ar))

\* Decoder.prototype.getLastPacketDuration
getLastPacketDuration(obj, hp, ar) ==
  withState(obj, hp, ar,
            getLastPacketDurationAt(withState_p(obj, hp), withState_heap(obj, hp), ar))

\* A variant: the sample array is held to the packet buffer's size
PcmLimit_PacketArena == p_data_len

\* the limit the bytes of a sample array are held to
PcmLimit == p_pcm_len

\* the function Encoder.prototype.encode passes to _withState
encodeAt(obj, pcm, p_enc, hp, ar) ==
  LET samples == DivToInt32(pcm.len, obj.channels)
      width   == BYTES_PER_ELEMENT(pcm.t)
      st      == hp[p_enc].state
      fn      == IF pcm.t = "f32" THEN "opus_encode_float" ELSE "opus_encode"
      ar1     == [ar EXCEPT !.pcm = "js"]
      enc     == opus_encode(st, samples, p_data_len)
      calls   == << Call(IF pcm.t = "f32" THEN "HEAPF32.set" ELSE "HEAP16.set",
                         <<p_pcm, pcm.len * width>>, 0),
                    Call(fn, <<p_enc, p_pcm, samples, p_data, p_data_len>>, enc.ret) >>
      hp2     == [hp EXCEPT ![p_enc].state = enc.state]
      ar2     == IF enc.ret > 0 THEN [ar1 EXCEPT !.data = "engine"] ELSE ar1
  IN  IF pcm.t \notin {"f32", "i16"}
      THEN Outcome("TypeError", Null, NoHandle, hp, ar, <<>>, FALSE)
      ELSE IF pcm.len * width > PcmLimit
      THEN Outcome("pcm array too large", Null, NoHandle, hp, ar, <<>>, FALSE)
      ELSE IF enc.ret < 0
      THEN Outcome("engine", Null, NoHandle, hp2, ar2, calls, FALSE)
      ELSE Outcome("", Buffer(enc.ret, enc.units, 0), NoHandle, hp2, ar2, calls, FALSE)

\* Encoder.prototype.encode
encode(obj, pcm, hp, ar) ==
  LET func(p, hp1, ar1) == encodeAt(obj, pcm, p, hp1, ar1)
  IN  withState(obj, hp, ar,
                func(withState_p(obj, hp), withState_heap(obj, hp), ar))


-----------------------------------------------------------------------------
(* The stream adapters.  The Transform base class is Node's: it hands the  *)
(* written chunks to _transform one at a time, in order, the next one only *)
(* after the callback of the one before was called.                        *)

Stream(kind, h, mode, queue, out, taken, transforming) ==
  [kind |-> kind, h |-> h, mode |-> mode, queue |-> queue, out |-> out,
   taken |-> taken, transforming |-> transforming]
NoStream == Stream("none", "", "", <<>>, <<>>, 0, FALSE)

\* what the callback of a chunk was called with
Result(err, val) == [err |-> err, val |-> val]

\* function EncoderStream(encoder, mode) / function DecoderStream(decoder, mode):
\* the error thrown ("" for none)
StreamModeRejected(mode) == mode # "Float32" /\ mode # "Int16"

ElementType(mode) == IF mode = "Float32" THEN "f32" ELSE "i16"

\* new this._mode(chunk.buffer, chunk.byteOffset, chunk.byteLength / BYTES_PER_ELEMENT):
\* a typed array must start at a multiple of its element size; its length is
\* converted to an integer
TypedArrayRejected(mode, chunk) == chunk.off % BYTES_PER_ELEMENT(ElementType(mode)) # 0
TypedArray(mode, chunk) ==
  JV(ElementType(mode), 0, chunk.len \div BYTES_PER_ELEMENT(ElementType(mode)), 0, 0)

\* what a call of _transform comes to: an Outcome, and whether the callback
\* was called (with thrown as its error and val as its data) or the error
\* left _transform as an exception
Transformed(o, called) == [o |-> o, called |-> called]

\* EncoderStream.prototype._transform(chunk, encoding, callback)
EncoderStreamTransform(obj, mode, chunk, hp, ar) ==
  IF TypedArrayRejected(mode, chunk)
  THEN Transformed(Outcome("RangeError", Null, obj, hp, ar, <<>>, FALSE), FALSE)
  ELSE Transformed(encode(obj, TypedArray(mode, chunk), hp, ar), TRUE)

\* Buffer.from(array.buffer, array.byteOffset, array.byteLength)
BufferFrom(array) == Buffer(array.len * BYTES_PER_ELEMENT(array.t), 0, 0)

\* the value DecoderStream.prototype._transform hands to this._decode
DecoderStreamInput(chunk) == chunk

\* DecoderStream.prototype._transform(chunk, encoding, callback)
DecoderStreamTransform(obj, mode, chunk, hp, ar) ==
  LET o == decode(obj, DecoderStreamInput(chunk), BYTES_PER_ELEMENT(ElementType(mode)), hp, ar)
  IN  Transformed(IF o.thrown = "" THEN [o EXCEPT !.val = BufferFrom(o.val)] ELSE o, TRUE)

-----------------------------------------------------------------------------
(* The state *)

NoOptions == Options(Num(0), Num(0), Num(0), FALSE)

\* the record of a method call
Last(op, id, opts, input, o, escaped) ==
  [op |-> op, id |-> id, opts |-> opts, input |-> input,
   thrown |-> o.thrown, val |-> o.val, trace |-> o.trace, escaped |-> escaped]

\* utils.js: the two arena buffers are allocated when the module is loaded
Init ==
  /\ handles = [h \in HandleIds |-> NoHandle]
  /\ heap = [a \in Addr |-> IF a \in {p_pcm, p_data} THEN Block(TRUE, NoState) ELSE FreeBlock]
  /\ arena = Arena("", "")
  /\ streams = [s \in StreamIds |-> NoStream]
  /\ last = Last("load", "", NoOptions, Null,
                 Outcome("", Null, NoHandle, heap, arena,
                         <<Call("malloc", <<pcm_len>>, p_pcm),
                           Call("malloc", <<data_len>>, p_data)>>, FALSE), FALSE)
  /\ corrupt = FALSE

\* the codec state a handle works on
StateOf(h) ==
  IF handles[h].unsafe THEN heap[handles[h].state.ptr].state ELSE handles[h].state.snap

\* a method call on handle h that came to o
Apply(h, o) ==
  /\ handles' = [handles EXCEPT ![h] = o.obj]
  /\ heap'    = o.heap
  /\ arena'   = o.arena
  /\ corrupt' = o.corrupt

NewDecoder(h, opts) ==
  /\ ~corrupt
  /\ handles[h].kind = "none"
  /\ LET o == Decoder(opts, heap, arena)
     IN  /\ Apply(h, o)
         /\ last' = Last("Decoder", h, opts, Null, o, FALSE)
  /\ UNCHANGED streams

NewEncoder(h, opts) ==
  /\ ~corrupt
  /\ handles[h].kind = "none"
  /\ LET o == Encoder(opts, heap, arena)
     IN  /\ Apply(h, o)
         /\ last' = Last("Encoder", h, opts, Null, o, FALSE)
  /\ UNCHANGED streams

Destroy(h) ==
  /\ ~corrupt
  /\ handles[h].kind # "none"
  /\ LET o == destroy(handles[h], heap, arena)
     IN  /\ Apply(h, o)
         /\ last' = Last("destroy", h, NoOptions, Null, o, FALSE)
  /\ UNCHANGED streams

Encode(h, pcm) ==
  /\ ~corrupt
  /\ handles[h].kind = "Encoder"
  /\ LET o == encode(handles[h], pcm, heap, arena)
     IN  /\ Apply(h, o)
         /\ last' = Last("encode", h, NoOptions, pcm, o, FALSE)
  /\ UNCHANGED streams

DecodeInt16(h, data) ==
  /\ ~corrupt
  /\ handles[h].kind = "Decoder"
  /\ LET o == decode(handles[h], data, 2, heap, arena)
     IN  /\ Apply(h, o)
         /\ last' = Last("decodeInt16", h, NoOptions, data, o, FALSE)
  /\ UNCHANGED streams

DecodeFloat32(h, data) ==
  /\ ~corrupt
  /\ handles[h].kind = "Decoder"
  /\ LET o == decode(handles[h], data, 4, heap, arena)
     IN  /\ Apply(h, o)
         /\ last' = Last("decodeFloat32", h, NoOptions, data, o, FALSE)
  /\ UNCHANGED streams

GetLastPacketDuration(h) ==
  /\ ~corrupt
  /\ handles[h].kind = "Decoder"
  /\ LET o == getLastPacketDuration(handles[h], heap, arena)
     IN  /\ Apply(h, o)
         /\ last' = Last("getLastPacketDuration", h, NoOptions, Null, o, FALSE)
  /\ UNCHANGED streams


\* Encoder.prototype.stream(mode) / Decoder.prototype.stream(mode)
NewStream(s, h, mode) ==
  /\ ~corrupt
  /\ streams[s].kind = "none"
  /\ handles[h].kind # "none"
  /\ LET kind == IF handles[h].kind = "Encoder" THEN "EncoderStream" ELSE "DecoderStream"
         o == Outcome(IF StreamModeRejected(mode) THEN "TypeError" ELSE "",
                      Null, handles[h], heap, arena, <<>>, FALSE)
     IN  /\ streams' = IF StreamModeRejected(mode) THEN streams
                       ELSE [streams EXCEPT ![s] = Stream(kind, h, mode, <<>>, <<>>, 0, FALSE)]
         /\ last' = Last("stream", h, NoOptions, Null, o, FALSE)
  /\ UNCHANGED <<handles, heap, arena, corrupt>>

\* stream.write(chunk): the chunk waits for its turn
Write(s, chunk) ==
  /\ ~corrupt
  /\ streams[s].kind # "none"
  /\ Len(streams[s].queue) < MaxQueue
  /\ streams[s].taken + Len(streams[s].queue) < MaxChunks
  /\ streams' = [streams EXCEPT ![s].queue = Append(@, chunk)]
  /\ last' = Last("write", s, NoOptions, chunk,
                  Outcome("", Null, NoHandle, heap, arena, <<>>, FALSE), FALSE)
  /\ UNCHANGED <<handles, heap, arena, corrupt>>

\* the Transform calls _transform with the oldest waiting chunk, once the
\* callback of the chunk before has been called
Transform(s) ==
  LET st    == streams[s]
      chunk == Head(st.queue)
      t     == IF st.kind = "EncoderStream"
               THEN EncoderStreamTransform(handles[st.h], st.mode, chunk, heap, arena)
               ELSE DecoderStreamTransform(handles[st.h], st.mode, chunk, heap, arena)
  IN  /\ ~corrupt
      /\ st.kind # "none"
      /\ st.queue # <<>>
      /\ ~st.transforming
      /\ Apply(st.h, t.o)
      /\ streams' = [streams EXCEPT
                       ![s].queue = Tail(@),
                       ![s].taken = @ + 1,
                       ![s].out   = IF t.called THEN Append(@, Result(t.o.thrown, t.o.val)) ELSE @,
                       ![s].transforming = ~t.called]
      /\ last' = Last("_transform", s, NoOptions, chunk, t.o, ~t.called)

-----------------------------------------------------------------------------
(* The inputs *)

\* construction: every kind of value the checks tell apart
AllChannels     == {Num(0), Num(1), Frac(1), Num(2), Num(3), NaN}
AllRates        == {Num(r) : r \in Rates} \cup {Num(0), Num(42), Num(44100), Str(123), Str(48000)}
AllApplications == {Num(a) : a \in Applications} \cup {Num(123), Num(2050)}
AllOptions ==
  {Options(r, c, a, u) : r \in AllRates, c \in AllChannels, a \in AllApplications, u \in BOOLEAN}

\* the codec calls: handles of both channel counts and modes; the decoder
\* at two rates, one of them the encoder's
EncoderOptions ==
  {Options(Num(48000), Num(c), Num(AUDIO), u) : c \in {1, 2}, u \in BOOLEAN}
DecoderOptions ==
  {Options(Num(r), Num(c), Num(0), u) : r \in {8000, 48000}, c \in {1, 2}, u \in BOOLEAN}

\* sample arrays: empty, a frame at either rate and channel count (480
\* elements) in both widths, an odd length, one element past the arena in
\* either width, and no sample array
PcmInputs ==
  {Int16Array(0), Int16Array(480), Int16Array(481), Float32Array(480),
   Int16Array(p_pcm_len \div 2 + 1), Float32Array(p_pcm_len \div 4 + 1), Other}

\* decoder inputs: absent, counts of lost samples (the last two past the
\* PCM arena in at least one width), packets, an empty buffer, bytes
\* that are no packet, a buffer past the packet arena, and no such value
DecodeInputs ==
  {Null, Number(120), Number(100), Number(12000), Number(24000),
   Buffer(PacketBytes(2), 2, 0), Buffer(PacketBytes(4), 4, 0),
   Buffer(0, 0, 0), Buffer(3, 0, 0), Buffer(p_data_len + 1, 0, 0), Other}

-----------------------------------------------------------------------------
(* The specifications *)

\* the stream adapters: one handle, an encoder or a decoder
StreamOptions == {Options(Num(48000), Num(c), Num(AUDIO), FALSE) : c \in {1, 2}}
StreamModes   == {"Int16", "Float32", "asd"}

\* chunks: a frame of samples (which is no packet), the same bytes at an odd
\* offset of their ArrayBuffer, a packet, an empty chunk
Chunks == {Buffer(960, 0, 0), Buffer(960, 0, 1), Buffer(PacketBytes(2), 2, 0), Buffer(0, 0, 0)}

\* construction and destruction, over every kind of option
NextNew ==
  \/ \E opts \in AllOptions : NewDecoder("h1", opts)
  \/ \E opts \in AllOptions : NewEncoder("h1", opts)
  \/ Destroy("h1")
  \/ GetLastPacketDuration("h1")

SpecNew == Init /\ [][NextNew]_vars

\* the codec calls, on one encoder and one decoder
Next ==
  \/ \E opts \in EncoderOptions : NewEncoder("h1", opts)
  \/ \E opts \in DecoderOptions : NewDecoder("h2", opts)
  \/ \E pcm \in PcmInputs : Encode("h1", pcm)
  \/ \E data \in DecodeInputs : DecodeInt16("h2", data)
  \/ \E data \in DecodeInputs : DecodeFloat32("h2", data)
  \/ GetLastPacketDuration("h2")

Spec == Init /\ [][Next]_vars


\* the stream of one encoder or decoder
NextStream ==
  \/ \E opts \in StreamOptions : NewEncoder("h1", opts)
  \/ \E opts \in StreamOptions : NewDecoder("h1", opts)
  \/ \E mode \in StreamModes : NewStream("s1", "h1", mode)
  \/ \E chunk \in Chunks : Write("s1", chunk)
  \/ Transform("s1")

SpecStream == Init /\ [][NextStream]_vars

\* handles in safe mode only.  Constructions that fail at a check (3
\* channels, a rate or an application not listed) and at the engine's init
\* (NaN channels pass the check and reach the engine as 0) come before the
\* one that succeeds, since a slot holds the first handle constructed.
SafeEncoderOptions ==
  {Options(Num(48000), c, Num(a), FALSE) : c \in {Num(1), Num(2), Num(3), NaN}, a \in {AUDIO, 123}}
SafeDecoderOptions ==
  {Options(r, c, Num(0), FALSE) : r \in {Num(48000), Num(44100)}, c \in {Num(1), Num(2), NaN}}

NextSafe ==
  \/ \E opts \in SafeEncoderOptions : NewEncoder("h1", opts)
  \/ \E opts \in SafeDecoderOptions : NewDecoder("h2", opts)
  \/ \E pcm \in PcmInputs : Encode("h1", pcm)
  \/ \E data \in DecodeInputs : DecodeInt16("h2", data)
  \/ \E data \in DecodeInputs : DecodeFloat32("h2", data)
  \/ GetLastPacketDuration("h2")

SpecSafe == Init /\ [][NextSafe]_vars


-----------------------------------------------------------------------------
(* Properties *)

DecodeOps == {"decodeInt16", "decodeFloat32"}
NewOps    == {"Decoder", "Encoder"}

\* the sample width of a decode method
WidthOf(op) == IF op = "decodeInt16" THEN 2 ELSE 4

\* the places in a log of foreign calls where the engine encodes or decodes
CodecCalls(trace) ==
  {i \in DOMAIN trace :
     trace[i].fn \in {"opus_encode", "opus_encode_float", "opus_decode", "opus_decode_float"}}
\* the places where the binding writes into the arena
ArenaWrites(trace) ==
  {i \in DOMAIN trace : trace[i].fn \in {"HEAPU8.set", "HEAP16.set", "HEAPF32.set"}}
\* every call into the engine or its allocator
ForeignCalls(trace) == DOMAIN trace

\* C1: round trip.  A packet encode returned, decoded next by a decoder of the
\* encoder's rate and channels, gives a typed array as long as the sample
\* array that was encoded.
C1_RoundTripLength ==
  [][ ( /\ last.op = "encode" /\ last.thrown = ""
        /\ last'.op \in DecodeOps /\ last'.input = last.val
        /\ handles'[last'.id].rate = handles[last.id].rate
        /\ handles'[last'.id].channels = handles[last.id].channels )
      => ( last'.thrown = "" /\ last'.val.len = last.input.len ) ]_vars

\* an input past the arena: a sample array of more bytes than the PCM buffer
\* holds, a packet of more bytes than the packet buffer holds
Oversized(op, input) ==
  \/ op = "encode" /\ input.t = "i16" /\ input.len * 2 > 4 * 2 * 120 * 48
  \/ op = "encode" /\ input.t = "f32" /\ input.len * 4 > 4 * 2 * 120 * 48
  \/ op \in DecodeOps /\ input.t = "buf" /\ input.len > 120 * 512

\* C2: a call with an oversized input throws, calls neither the engine's
\* encode nor its decode, writes nothing into the arena, and leaves the
\* handle (its snapshot) and the heap (the block of an unsafe handle, and
\* which blocks are allocated) as they were.
C2_OversizedFailsUnchanged ==
  [][ Oversized(last'.op, last'.input)
      => ( /\ last'.thrown # ""
           /\ CodecCalls(last'.trace) = {}
           /\ ArenaWrites(last'.trace) = {}
           /\ arena' = arena
           /\ handles' = handles
           /\ heap' = heap ) ]_vars

\* C2's case, on a codec state that has processed a frame: on an unsafe
\* encoder, or on a safe decoder
C2_Witness ==
  /\ Oversized(last.op, last.input)
  /\ last.thrown # ""
  /\ handles[last.id].state.tag \in {"snap", "ptr"}
  /\ StateOf(last.id).n > 0

\* C3: a count of lost samples with count x width past the PCM arena is
\* rejected without a call of the engine; the engine's decode, when called
\* for a count, gets a zero packet pointer, a zero length and the count.
C3_LostCountWithinPcmArena ==
  (last.op \in DecodeOps /\ last.input.t = "num" /\ last.input.n > 0)
  => /\ last.input.n * WidthOf(last.op) > 4 * 2 * 120 * 48
          => (last.thrown # "" /\ CodecCalls(last.trace) = {})
     /\ \A i \in CodecCalls(last.trace) :
          /\ last.trace[i].args[2] = 0
          /\ last.trace[i].args[3] = 0
          /\ last.trace[i].args[5] = last.input.n

\* what getLastPacketDuration() returns on handle h now
DurationNow(h) == getLastPacketDuration(handles[h], heap, arena).val.n

StreamWidth(s) == BYTES_PER_ELEMENT(ElementType(streams[s].mode))

\* C5: an empty chunk written to a decoder stream reaches the engine as
\* decode(null) does: the foreign calls of its _transform are those of a
\* decode call without input (the duration query, then the engine's decode
\* with a zero packet pointer and the last packet duration).
C5_EmptyChunkIsAbsentInput ==
  [][ ( /\ last'.op = "_transform"
        /\ streams[last'.id].kind = "DecoderStream"
        /\ last'.input.len = 0 )
      => last'.trace =
           decode(handles[streams[last'.id].h], Null, StreamWidth(last'.id), heap, arena).trace
    ]_vars

\* what a direct call of encode / decodeInt16 / decodeFloat32 on the chunk
\* comes to, as the callback's arguments
Direct(s, chunk) ==
  LET st == streams[s]
      o  == IF st.kind = "EncoderStream"
            THEN encode(handles[st.h], TypedArray(st.mode, chunk), heap, arena)
            ELSE decode(handles[st.h], chunk, StreamWidth(s), heap, arena)
  IN  Result(o.thrown,
             IF st.kind = "DecoderStream" /\ o.thrown = "" THEN BufferFrom(o.val) ELSE o.val)

\* C6: every chunk a stream takes is the oldest one waiting, its callback
\* is called before the next one is taken, and it adds one output, after
\* those of the chunks before: what the direct call on it comes to.
C6_OneOutputPerChunkInOrder ==
  [][ \A s \in StreamIds :
        streams'[s].taken = streams[s].taken + 1
        => /\ streams'[s].queue = Tail(streams[s].queue)
           /\ ~streams'[s].transforming
           /\ Len(streams'[s].out) = streams'[s].taken
           /\ streams'[s].out = Append(streams[s].out, Direct(s, Head(streams[s].queue)))
    ]_vars

\* C7: no error leaves _transform as an exception; each is the callback's
\* error argument.
C7_ErrorsGoToCallback ==
  last.op = "_transform" => ~last.escaped

RateListed(x) == x \in {Num(8000), Num(12000), Num(16000), Num(24000), Num(48000)}
ApplicationListed(x) == x \in {Num(2048), Num(2049), Num(2051)}
ChannelsListed(x) == x \in {Num(1), Num(2)}

\* C8: construction with channels other than 1 or 2 throws the channels
\* error; with channels 1 or 2, a listed rate and (Encoder) a listed
\* application it succeeds.
C8_ChannelsOneOrTwo ==
  last.op \in NewOps
  => IF ChannelsListed(last.opts.channels)
     THEN (RateListed(last.opts.rate)
           /\ (last.op = "Encoder" => ApplicationListed(last.opts.application)))
          => last.thrown = ""
     ELSE last.thrown = "channels"

\* C9: construction with a rate that is not listed or (Encoder) an
\* application that is not listed throws, and has made no foreign call by
\* then; with channels 1 or 2 the error is the rate error for a bad rate and
\* the application error for a bad application alone, and a listed rate
\* with a listed application is accepted.
C9_ValidationBeforeEngine ==
  last.op \in NewOps
  => LET badRate == ~RateListed(last.opts.rate)
         badApp  == last.op = "Encoder" /\ ~ApplicationListed(last.opts.application)
         okCh    == ChannelsListed(last.opts.channels)
     IN  /\ (badRate \/ badApp) => (last.thrown # "" /\ ForeignCalls(last.trace) = {})
         /\ (okCh /\ badRate) => last.thrown = "rate"
         /\ (okCh /\ ~badRate /\ badApp) => last.thrown = "application"
         /\ (okCh /\ ~badRate /\ ~badApp) => last.thrown = ""

\* C9's case: an Encoder refused for the rate '123', before any foreign call
C9_Witness ==
  /\ last.op = "Encoder" /\ last.opts.rate = Str(123)
  /\ ChannelsListed(last.opts.channels)
  /\ last.thrown = "rate" /\ last.trace = <<>>

\* C10: destroy() throws nothing; on a safe handle it makes no foreign call
\* and leaves the handle, its snapshot and the heap as they were; on an
\* unsafe handle that was not destroyed before, it makes one call,
\* free(state), after which that block, and no other, is released.
C10_Destroy ==
  [][ last'.op = "destroy"
      => LET obj == handles[last'.id]
             p   == obj.state.ptr
         IN  /\ last'.thrown = ""
             /\ ~obj.unsafe
                  => (last'.trace = <<>> /\ heap' = heap /\ handles' = handles /\ ~corrupt')
             /\ (obj.unsafe /\ ~obj.state.freed)
                  => /\ last'.trace = <<Call("free", <<p>>, 0)>>
                     /\ heap[p].used /\ ~heap'[p].used
                     /\ \A a \in Addr \ {p} : heap'[a] = heap[a]
                     /\ ~corrupt'
    ]_vars

\* C10's case: an unsafe handle has been destroyed, once
C10_Witness ==
  /\ last.op = "destroy"
  /\ handles[last.id].unsafe /\ handles[last.id].state.freed
  /\ ~heap[handles[last.id].state.ptr].used
  /\ ~corrupt


-----------------------------------------------------------------------------
(* C11 *)

\* the blocks in use
Live(hp) == {a \in Addr : hp[a].used}

\* the blocks a call has allocated and not freed, after the foreign calls of
\* `trace`; 0 - 1 in the set: the call freed a block it did not hold then (a
\* second free, or a free of a block of another owner)
RECURSIVE Held(_, _)
Held(trace, held) ==
  IF trace = <<>> THEN held
  ELSE LET c == Head(trace)
       IN  IF c.fn = "malloc" THEN Held(Tail(trace), held \cup {c.ret})
           ELSE IF c.fn = "free"
           THEN IF c.args[1] \in held
                THEN Held(Tail(trace), held \ {c.args[1]})
                ELSE Held(Tail(trace), held \cup {0 - 1})
           ELSE Held(Tail(trace), held)

Mallocs(trace) == {i \in 1..Len(trace) : trace[i].fn = "malloc"}

\* C11: with handles in safe mode only, when a construction or a call has
\* returned or thrown, every block it allocated has been freed, each once
\* and none that it did not hold, and the only blocks in use are the two
\* buffers of the arena.
C11_NoLeakInSafeMode ==
  /\ last.op # "load" => Held(last.trace, {}) = {}
  /\ Live(heap) = {p_pcm, p_data}

\* a decode that allocated has thrown at a negative status of the engine
C11_Witness ==
  /\ last.op \in DecodeOps
  /\ last.thrown = "engine"
  /\ Mallocs(last.trace) # {}
  /\ handles[last.id].kind = "Decoder" /\ ~handles[last.id].unsafe

-----------------------------------------------------------------------------
(* C12 *)

MethodOps == DecodeOps \cup {"encode", "getLastPacketDuration"}

\* what the engine does with a state st under the engine calls of `trace`,
\* one after the other: the state it leaves, and whether every status logged
\* is the one the engine gives on that state.  `units` is what the bytes of
\* the packet buffer parse to.
RECURSIVE EngineOn(_, _, _)
EngineOn(st, trace, units) ==
  IF trace = <<>> THEN [state |-> st, agrees |-> TRUE]
  ELSE LET c == Head(trace)
           r == IF c.fn \in {"opus_encode", "opus_encode_float"}
                THEN opus_encode(st, c.args[3], c.args[5])
                ELSE IF c.fn \in {"opus_decode", "opus_decode_float"}
                THEN opus_decode(st, c.args[2], c.args[3], units, c.args[5])
                ELSE IF c.fn = "opus_decoder_ctl"
                THEN [ret |-> opus_decoder_ctl(st, c.args[2]).ret, state |-> st]
                ELSE [ret |-> c.ret, state |-> st]
           rest == EngineOn(r.state, Tail(trace), units)
       IN  [state |-> rest.state, agrees |-> rest.agrees /\ c.ret = r.ret]

\* the engine calls that are given a codec state
StateCalls(trace) ==
  CodecCalls(trace) \cup {i \in DOMAIN trace : trace[i].fn = "opus_decoder_ctl"}

\* C12: in every call of encode, decodeInt16, decodeFloat32 or
\* getLastPacketDuration on a handle in safe mode, the engine is given the
\* block the call allocated, it acts as it does on the snapshot the handle
\* had before the call (so that block held the snapshot), and after the
\* call, returned or thrown, the snapshot is the state the engine left in
\* the block; the query returns the duration in the snapshot; and no call
\* changes another handle.
C12_SafeStateRoundTrip ==
  [][ LET h   == last'.id
          tr  == last'.trace
          run == EngineOn(handles[h].state.snap, tr, last'.input.units)
      IN  (last'.op \in MethodOps /\ ~handles[h].unsafe) =>
            /\ \A g \in HandleIds \ {h} : handles'[g] = handles[g]
            /\ \A i \in StateCalls(tr) : tr[1].fn = "malloc" /\ tr[i].args[1] = tr[1].ret
            /\ run.agrees
            /\ handles'[h] = [handles[h] EXCEPT !.state = Snapshot(run.state)]
            /\ (last'.op = "getLastPacketDuration" /\ last'.thrown = "") =>
                  last'.val = Number(handles[h].state.snap.dur)
    ]_vars

\* an encoder and a decoder in safe mode have both worked: the encoder has
\* encoded a frame and the decoder has just decoded a packet
C12_Witness ==
  /\ handles["h1"].kind = "Encoder" /\ ~handles["h1"].unsafe
  /\ handles["h1"].state.snap.n > 0
  /\ handles["h2"].kind = "Decoder" /\ ~handles["h2"].unsafe
  /\ last.op \in DecodeOps /\ last.id = "h2" /\ last.thrown = "" /\ last.input.t = "buf"
  /\ handles["h2"].state.snap.dur > 0

-----------------------------------------------------------------------------
(* C13 *)

\* the engine's decode calls in a log of foreign calls
DecodeCalls(trace) ==
  {i \in DOMAIN trace : trace[i].fn \in {"opus_decode", "opus_decode_float"}}

\* the bytes the engine may write when it is given room for frame_size
\* samples per channel
CapacityBytes(h, frame_size, bps) == frame_size * ToInt32(handles[h].channels) * bps

\* C13: in every decode call the engine is given, by decodeInt16 or
\* decodeFloat32, with a packet or with a count of lost samples, the frame
\* size passed times the channels times the sample width is at most the
\* length of the PCM buffer.
C13_DecodeCapacityWithinPcmArena ==
  last.op \in DecodeOps =>
    \A i \in DecodeCalls(last.trace) :
      CapacityBytes(last.id, last.trace[i].args[5], WidthOf(last.op)) <= p_pcm_len

=============================================================================
